---- MODULE Spec2Model ----
(***************************************************************************)
(* simplenn: the Dense block (simplenn/models/dense.py), the layers it     *)
(* chains, the Sequential container and the gradient-descent optimizer     *)
(* that drive it (test/regression.py builds network2 and trains it).       *)
(*                                                                         *)
(* Tensors are terms of the tensor algebra: a tuple whose first element    *)
(* is the name of the tensor operation and whose other elements are its    *)
(* operands.  Two terms are equal exactly when they were built by the same *)
(* operations from the same operands, so equality of terms is bit-identity *)
(* of the arrays for every interpretation of the tensor library.           *)
(***************************************************************************)
EXTENDS Integers, Sequences, FiniteSets, TLC

VARIABLES status, self, error, ret, calls, fresh, nextId, first, initial,
          updates, pc, model, cfg, n, epoch, batch, steps, prev, count, owng

densevars == <<status, self, error, ret, calls, fresh, nextId, first, initial, updates>>
trainvars == <<pc, model, cfg, n, epoch, batch, steps, prev, count, owng>>
vars == <<densevars, trainvars>>

(***************************************************************************)
(* Bounds of the model.                                                    *)
(***************************************************************************)
MaxForward == 3       \* forward_with_cache calls on one Dense
MaxUpdates == 1       \* optimizer updates applied to one Dense
MaxSteps == 2         \* mini-batch steps of one optimizer run
MaxEpochs == 2        \* largest number of epochs configured
MaxN == 3             \* largest dataset size
MaxBatch == 4         \* largest batch size configured

(***************************************************************************)
(* Python values.                                                          *)
(***************************************************************************)
None == <<"None">>
Str(s) == <<"str", s>>
EmptyDict == [k \in {} |-> None]
\* {**a, **b}: the keys of both, b's value where both have the key
DictMerge(a, b) == [k \in DOMAIN a \cup DOMAIN b |-> IF k \in DOMAIN b THEN b[k] ELSE a[k]]

RECURSIVE Join(_, _)
\* sep.join(seq), as the sequence of its pieces
Join(sep, seq) ==
    IF Len(seq) = 0 THEN <<>>
    ELSE IF Len(seq) = 1 THEN <<seq[1]>>
    ELSE <<seq[1], sep>> \o Join(sep, Tail(seq))

(***************************************************************************)
(* The primitive layers.  A parameter array is an object: get_parameters   *)
(* hands out the array itself (ref: which array it is, val: its content).  *)
(***************************************************************************)
ParamNames == {"w", "b"}
Inputs == {<<"x1">>, <<"x2">>}
Upstreams == {<<"g1">>, <<"g2">>}

\* An initializer strategy applied to the shape of the array ref
Initializer(strategy, ref) == <<"init", strategy, ref>>

Linear(owner, name, initializer) ==
    [name |-> name, ref |-> <<owner, "linear", name>>,
     w |-> Initializer(initializer, <<owner, "linear", name>>)]
Linear_forward_with_cache(l, x) == [y |-> <<"matmul", x, l.w>>, cache |-> x]
Linear_backward(l, g, cache) ==
    [dx |-> <<"matmul", g, <<"T", l.w>>>>,
     grads |-> (l.name :> <<"matmul", <<"T", cache>>, g>>)]
Linear_get_parameters(l) == (l.name :> [ref |-> l.ref, val |-> l.w])

Bias(owner, name, initializer) ==
    [name |-> name, ref |-> <<owner, "bias", name>>,
     b |-> Initializer(initializer, <<owner, "bias", name>>)]
Bias_forward_with_cache(b, x) == [y |-> <<"add", x, b.b>>, cache |-> <<"nocache">>]
Bias_backward(b, g, cache) ==
    [dx |-> g, grads |-> (b.name :> <<"sumbatch", g>>)]
Bias_get_parameters(b) == (b.name :> [ref |-> b.ref, val |-> b.b])

\* An activation: the function it applies and the parameters it owns (none
\* for the five implemented ones; Dense allows for activations that have some).
Activation(owner, kind, names) ==
    [kind |-> kind,
     p |-> [k \in names |-> Initializer("RandomNormal", <<owner, "activation", k>>)],
     ref |-> [k \in names |-> <<owner, "activation", k>>]]
Activation_apply(kind, x) ==
    IF kind = "Identity" THEN x
    ELSE IF kind = "ReLU" THEN <<"relu", x>>
    ELSE IF kind = "TanH" THEN <<"tanh", x>>
    ELSE IF kind = "Sigmoid" THEN <<"sigmoid", x>>
    ELSE <<"softmax", x>>
Activation_forward_with_cache(a, x) ==
    [y |-> Activation_apply(a.kind, x), cache |-> <<"out", Activation_apply(a.kind, x)>>]
Activation_gradient(kind, g, cache) ==
    IF kind = "Identity" THEN g
    ELSE IF kind = "ReLU" THEN <<"mul", g, <<"gt0", cache[2]>>>>
    ELSE IF kind = "TanH" THEN <<"mul", g, <<"one_minus_sq", cache[2]>>>>
    ELSE IF kind = "Sigmoid" THEN <<"mul", g, <<"y_one_minus_y", cache[2]>>>>
    ELSE <<"softmax_jvp", cache[2], g>>
Activation_backward(a, g, cache) ==
    [dx |-> Activation_gradient(a.kind, g, cache),
     grads |-> [k \in DOMAIN a.p |-> <<"dactivation", g, cache, a.p[k]>>]]
Activation_get_parameters(a) == [k \in DOMAIN a.p |-> [ref |-> a.ref[k], val |-> a.p[k]]]

(***************************************************************************)
(* Dense (simplenn/models/dense.py).                                       *)
(***************************************************************************)
activation_keys == <<"id", "relu", "tanh", "sigmoid", "softmax">>
activation_dict ==
    [k \in {activation_keys[i] : i \in 1..Len(activation_keys)} |->
        CASE k = "id" -> "Identity"
          [] k = "relu" -> "ReLU"
          [] k = "tanh" -> "TanH"
          [] k = "sigmoid" -> "Sigmoid"
          [] k = "softmax" -> "Softmax"]

\* The class-derived default name of a model
DefaultName(class) == class

\* Dense.__init__ falling back to the identity for a name it does not know
Dense_init_fallback(owner, activation_name, name, linear_name, bias_name, activation_params) ==
    LET an == IF activation_name = None THEN "id" ELSE activation_name[2]
        kind == IF an \in DOMAIN activation_dict THEN activation_dict[an] ELSE "Identity"
    IN  [raised |-> FALSE,
         self |-> [linear |-> Linear(owner, linear_name, "RandomNormal"),
                   bias |-> Bias(owner, bias_name, "Zero"),
                   activation |-> Activation(owner, kind, activation_params),
                   name |-> <<IF name = None THEN DefaultName("Dense") ELSE name[2],
                              "(", an, ")">>]]

\* Dense.__init__: the object built, or the ValueError raised.  linear_name,
\* bias_name and activation_params are the parameter names the children
\* declare: Dense reaches its children through the layer contract only.
Dense_init(owner, activation_name, name, linear_name, bias_name, activation_params) ==
    LET linear == Linear(owner, linear_name, "RandomNormal")
        bias == Bias(owner, bias_name, "Zero")
        an == IF activation_name = None THEN "id" ELSE activation_name[2]
    IN  IF an \in DOMAIN activation_dict
        THEN [raised |-> FALSE,
              self |-> [linear |-> linear, bias |-> bias,
                        activation |-> Activation(owner, activation_dict[an], activation_params),
                        name |-> <<IF name = None THEN DefaultName("Dense") ELSE name[2],
                                   "(", an, ")">>]]
        ELSE [raised |-> TRUE,
              error |-> [type |-> "ValueError",
                         message |-> <<"Unknown activation function ", an,
                                       ". Available activations: ">>
                                     \o Join(",", activation_keys)]]

Call(layer, op, arg, cache) == [layer |-> layer, op |-> op, arg |-> arg, cache |-> cache]

\* forward_with_cache applying the bias before the linear layer
Dense_forward_bias_first(d, x) ==
    LET b == Bias_forward_with_cache(d.bias, x)
        l == Linear_forward_with_cache(d.linear, b.y)
        a == Activation_forward_with_cache(d.activation, l.y)
    IN  [y |-> a.y, cache |-> <<l.cache, b.cache, a.cache>>,
         calls |-> <<Call("bias", "forward_with_cache", x, None),
                     Call("linear", "forward_with_cache", b.y, None),
                     Call("activation", "forward_with_cache", l.y, None)>>]

\* forward_with_cache that reuses the input of the previous call
Dense_forward_kept_input(d, x) ==
    LET x0 == IF fresh.id > 0 THEN fresh.x ELSE x
        l == Linear_forward_with_cache(d.linear, x0)
        b == Bias_forward_with_cache(d.bias, l.y)
        a == Activation_forward_with_cache(d.activation, b.y)
    IN  [y |-> a.y, cache |-> <<l.cache, b.cache, a.cache>>,
         calls |-> <<Call("linear", "forward_with_cache", x0, None),
                     Call("bias", "forward_with_cache", l.y, None),
                     Call("activation", "forward_with_cache", b.y, None)>>]

\* Dense.forward_with_cache: output, cache, and the child calls it made
Dense_forward_with_cache(d, x) ==
    LET l == Linear_forward_with_cache(d.linear, x)
        b == Bias_forward_with_cache(d.bias, l.y)
        a == Activation_forward_with_cache(d.activation, b.y)
    IN  [y |-> a.y, cache |-> <<l.cache, b.cache, a.cache>>,
         calls |-> <<Call("linear", "forward_with_cache", x, None),
                     Call("bias", "forward_with_cache", l.y, None),
                     Call("activation", "forward_with_cache", b.y, None)>>]

\* backward that skips the activation's backward on the way down
Dense_backward_skips_activation(d, dEdy, cache) ==
    LET b == Bias_backward(d.bias, dEdy, cache[2])
        l == Linear_backward(d.linear, b.dx, cache[1])
        a == Activation_backward(d.activation, dEdy, cache[3])
    IN  [dx |-> l.dx,
         grads |-> DictMerge(DictMerge(b.grads, l.grads), a.grads),
         calls |-> <<Call("bias", "backward", dEdy, cache[2]),
                     Call("linear", "backward", b.dx, cache[1]),
                     Call("activation", "backward", dEdy, cache[3])>>]

\* backward that leaves the activation's gradients out of the merge
Dense_backward_drops_activation(d, dEdy, cache) ==
    LET a == Activation_backward(d.activation, dEdy, cache[3])
        b == Bias_backward(d.bias, a.dx, cache[2])
        l == Linear_backward(d.linear, b.dx, cache[1])
    IN  [dx |-> l.dx,
         grads |-> DictMerge(b.grads, l.grads),
         calls |-> <<Call("activation", "backward", dEdy, cache[3]),
                     Call("bias", "backward", a.dx, cache[2]),
                     Call("linear", "backward", b.dx, cache[1])>>]

\* Dense.backward: downstream gradient, merged parameter gradients, child calls
Dense_backward(d, dEdy, cache) ==
    LET cache_linear == cache[1]
        cache_bias == cache[2]
        cache_activation == cache[3]
        a == Activation_backward(d.activation, dEdy, cache_activation)
        b == Bias_backward(d.bias, a.dx, cache_bias)
        l == Linear_backward(d.linear, b.dx, cache_linear)
    IN  [dx |-> l.dx,
         grads |-> DictMerge(DictMerge(b.grads, l.grads), a.grads),
         calls |-> <<Call("activation", "backward", dEdy, cache_activation),
                     Call("bias", "backward", a.dx, cache_bias),
                     Call("linear", "backward", b.dx, cache_linear)>>]

\* Dense.get_parameters
Dense_get_parameters(d) ==
    LET p_linear == Linear_get_parameters(d.linear)
        p_bias == Bias_get_parameters(d.bias)
        p_activation == Activation_get_parameters(d.activation)
    IN  DictMerge(DictMerge(p_linear, p_bias), p_activation)

(***************************************************************************)
(* The optimizer's update rule: value <- value - learning_rate x gradient, *)
(* written into the array that get_parameters handed out under the name.   *)
(* A learning rate is a number of 1e-4 units.                              *)
(***************************************************************************)
SGD_value(lr, val, g) == <<"sub", val, <<"mul", <<"lr", lr>>, g>>>>
\* the content of array ref after the update step over params and grads
SGD_update(lr, params, grads, ref, val) ==
    IF \E k \in DOMAIN grads : params[k].ref = ref
    THEN LET k == CHOOSE k \in DOMAIN grads : params[k].ref = ref
         IN  SGD_value(lr, params[k].val, grads[k])
    ELSE val
\* the Dense d after the update step has written to each of its arrays
Dense_updated(d, lr, params, grads) ==
    [d EXCEPT !.linear.w = SGD_update(lr, params, grads, d.linear.ref, @),
              !.bias.b = SGD_update(lr, params, grads, d.bias.ref, @),
              !.activation.p = [k \in DOMAIN @ |->
                  SGD_update(lr, params, grads, d.activation.ref[k], @[k])]]

(***************************************************************************)
(* Sequential, the optimizer, and the regression test that builds and      *)
(* trains its models (test/regression.py).                                 *)
(***************************************************************************)
Min(a, b) == IF a <= b THEN a ELSE b
Max(a, b) == IF a >= b THEN a ELSE b

Layer(type, obj) == [type |-> type, obj |-> obj]
Layer_forward_with_cache(layer, x) ==
    CASE layer.type = "Dense" -> Dense_forward_with_cache(layer.obj, x)
      [] layer.type = "Linear" -> Linear_forward_with_cache(layer.obj, x)
      [] layer.type = "Bias" -> Bias_forward_with_cache(layer.obj, x)
      [] layer.type = "ReLU" -> Activation_forward_with_cache(layer.obj, x)
Layer_backward(layer, g, cache) ==
    CASE layer.type = "Dense" -> Dense_backward(layer.obj, g, cache)
      [] layer.type = "Linear" -> Linear_backward(layer.obj, g, cache)
      [] layer.type = "Bias" -> Bias_backward(layer.obj, g, cache)
      [] layer.type = "ReLU" -> Activation_backward(layer.obj, g, cache)
Layer_get_parameters(layer) ==
    CASE layer.type = "Dense" -> Dense_get_parameters(layer.obj)
      [] layer.type = "Linear" -> Linear_get_parameters(layer.obj)
      [] layer.type = "Bias" -> Bias_get_parameters(layer.obj)
      [] layer.type = "ReLU" -> Activation_get_parameters(layer.obj)
\* the layer after the update step has written to each of its arrays
Layer_updated(layer, lr, params, grads) ==
    CASE layer.type = "Dense" -> [layer EXCEPT !.obj = Dense_updated(@, lr, params, grads)]
      [] layer.type = "Linear" ->
           [layer EXCEPT !.obj.w = SGD_update(lr, params, grads, layer.obj.ref, @)]
      [] layer.type = "Bias" ->
           [layer EXCEPT !.obj.b = SGD_update(lr, params, grads, layer.obj.ref, @)]
      [] layer.type = "ReLU" -> layer

RECURSIVE Sequential_forward_from(_, _, _)
\* the children from the i-th on, in list order, each fed the previous output
Sequential_forward_from(layers, i, x) ==
    IF i > Len(layers) THEN [y |-> x, cache |-> <<>>]
    ELSE LET r == Layer_forward_with_cache(layers[i], x)
             rest == Sequential_forward_from(layers, i + 1, r.y)
         IN  [y |-> rest.y, cache |-> <<r.cache>> \o rest.cache]
Sequential_forward_with_cache(m, x) == Sequential_forward_from(m.layers, 1, x)

RECURSIVE Sequential_backward_from(_, _, _, _)
\* the children from the i-th down, in reverse order; the per-child gradient
\* mappings (own) merged into one, a later child's entry standing for a name
\* that an earlier child has too
Sequential_backward_from(layers, i, g, caches) ==
    IF i = 0 THEN [dx |-> g, grads |-> EmptyDict, own |-> <<>>]
    ELSE LET r == Layer_backward(layers[i], g, caches[i])
             rest == Sequential_backward_from(layers, i - 1, r.dx, caches)
         IN  [dx |-> rest.dx, grads |-> DictMerge(rest.grads, r.grads),
              own |-> Append(rest.own, r.grads)]
Sequential_backward(m, g, caches) ==
    Sequential_backward_from(m.layers, Len(m.layers), g, caches)

RECURSIVE Sequential_parameters_upto(_, _)
Sequential_parameters_upto(layers, i) ==
    IF i = 0 THEN EmptyDict
    ELSE DictMerge(Sequential_parameters_upto(layers, i - 1),
                   Layer_get_parameters(layers[i]))
Sequential_get_parameters(m) == Sequential_parameters_upto(m.layers, Len(m.layers))

Sequential(layers, name) == [layers |-> layers, name |-> name]

\* regression.py: linear_regression(din, dout)
linear_regression ==
    Sequential(<<Layer("Linear", Linear("layer1", "w", "RandomNormal")),
                 Layer("Bias", Bias("layer2", "b", "Zero"))>>, "linear_regression")

\* regression.py: network2(din, dout)
network2 ==
    Sequential(<<Layer("Dense", Dense_init("layer1", None, None, "w", "b", {}).self),
                 Layer("ReLU", Activation("layer2", "ReLU", {})),
                 Layer("Dense", Dense_init("layer3", None, None, "w", "b", {}).self)>>,
               "network2")

Generators == {"linear_regression", "network2"}
Generate(model_generator) ==
    IF model_generator = "network2" THEN network2 ELSE linear_regression

\* the batch size without the cap at the number of samples
TestBatchSize_uncapped(samples) == Min(16, Max(64, samples \div 32))

\* regression.py: the batch size test_model computes for n samples
TestBatchSize(samples) == Min(samples, Min(16, Max(64, samples \div 32)))

\* a configuration check that lets zero epochs through
SGD_valid_zero_epochs(c, samples) ==
    /\ c.batch_size > 0 /\ c.batch_size <= samples
    /\ c.epochs >= 0 /\ c.lr > 0

\* StochasticGradientDescent: the configuration it rejects
SGD_valid(c, samples) ==
    /\ c.batch_size > 0 /\ c.batch_size <= samples
    /\ c.epochs > 0 /\ c.lr > 0
\* the number of mini-batches of one epoch, a trailing partial batch kept
SGD_batches(c, samples) == (samples + c.batch_size - 1) \div c.batch_size

\* one mini-batch step on model m: forward, loss gradient, backward, update
SGD_step(c, m, e, i) ==
    LET x == <<"x_batch", e, i>>
        y_true == <<"y_batch", e, i>>
        f == Sequential_forward_with_cache(m, x)
        dEdy == <<"MeanError_SquaredError_gradient", y_true, f.y>>
        b == Sequential_backward(m, dEdy, f.cache)
        params == Sequential_get_parameters(m)
    IN  [model |-> [m EXCEPT !.layers = [j \in 1..Len(m.layers) |->
                                            Layer_updated(m.layers[j], c.lr, params, b.grads)]],
         own |-> b.own,
         writes |-> [k \in DOMAIN b.grads |-> params[k].ref]]

(***************************************************************************)
(* Specification Spec: one Dense object, constructed and then used.        *)
(***************************************************************************)
ActivationArgs == {None} \cup {Str(activation_keys[i]) : i \in 1..Len(activation_keys)}
                    \cup {Str("foo"), Str("ReLU"), Str("")}
NameArgs == {None, Str("block")}
NoObject == [none |-> TRUE]
NoError == [type |-> "none"]
NoForward == [id |-> 0]

TrainIdle ==
    /\ pc = "idle" /\ model = Sequential(<<>>, "") /\ cfg = [by |-> "nobody"]
    /\ n = 0 /\ epoch = 0 /\ batch = 0 /\ steps = 0
    /\ prev = Sequential(<<>>, "") /\ count = EmptyDict /\ owng = <<>>

Init ==
    /\ status = "start" /\ self = NoObject /\ error = NoError
    /\ ret = [op |-> "none"] /\ calls = <<>> /\ fresh = NoForward
    /\ nextId = 1 /\ first = [x \in Inputs |-> NoForward]
    /\ initial = EmptyDict /\ updates = 0
    /\ TrainIdle

\* d = Dense(input_size, output_size, activation_name, name=name)
Construct ==
    /\ status = "start"
    /\ \E activation_name \in ActivationArgs, name \in NameArgs,
          linear_name \in ParamNames, bias_name \in ParamNames,
          activation_params \in SUBSET ParamNames :
         LET r == Dense_init("dense", activation_name, name,
                             linear_name, bias_name, activation_params)
         IN  /\ ret' = [op |-> "init", activation_name |-> activation_name]
             /\ IF r.raised
                THEN /\ status' = "raised" /\ error' = r.error
                     /\ UNCHANGED <<self, initial>>
                ELSE /\ status' = "built" /\ self' = r.self
                     /\ initial' = Dense_get_parameters(r.self)
                     /\ UNCHANGED error
    /\ UNCHANGED <<calls, fresh, nextId, first, updates, trainvars>>

\* y, cache = d.forward_with_cache(x)
Forward ==
    /\ status = "built" /\ nextId <= MaxForward
    /\ \E x \in Inputs :
         LET r == Dense_forward_with_cache(self, x)
             res == [op |-> "forward", x |-> x, y |-> r.y, cache |-> r.cache, id |-> nextId]
         IN  /\ ret' = res /\ calls' = r.calls /\ fresh' = res
             /\ first' = IF first[x].id = 0 THEN [first EXCEPT ![x] = res] ELSE first
    /\ nextId' = nextId + 1
    /\ UNCHANGED <<status, self, error, initial, updates, trainvars>>

\* backward that applies the gradients to the parameters as it goes
Backward_applies_gradients ==
    /\ status = "built" /\ fresh.id > 0
    /\ \E g \in Upstreams :
         LET r == Dense_backward(self, g, fresh.cache)
         IN  /\ ret' = [op |-> "backward", g |-> g, cache |-> fresh.cache,
                        dx |-> r.dx, grads |-> r.grads]
             /\ calls' = r.calls
             /\ self' = Dense_updated(self, 1000, Dense_get_parameters(self), r.grads)
    /\ UNCHANGED <<status, error, fresh, nextId, first, initial, updates, trainvars>>

\* dx, grads = d.backward(g, cache), cache being that of the latest forward
Backward ==
    /\ status = "built" /\ fresh.id > 0
    /\ \E g \in Upstreams :
         LET r == Dense_backward(self, g, fresh.cache)
         IN  /\ ret' = [op |-> "backward", g |-> g, cache |-> fresh.cache,
                        dx |-> r.dx, grads |-> r.grads]
             /\ calls' = r.calls
    /\ UNCHANGED <<status, self, error, fresh, nextId, first, initial, updates, trainvars>>

\* p = d.get_parameters()
GetParameters ==
    /\ status = "built"
    /\ ret' = [op |-> "get_parameters", params |-> Dense_get_parameters(self)]
    /\ calls' = <<Call("linear", "get_parameters", None, None),
                  Call("bias", "get_parameters", None, None),
                  Call("activation", "get_parameters", None, None)>>
    /\ UNCHANGED <<status, self, error, fresh, nextId, first, initial, updates, trainvars>>

\* the optimizer's update step with the gradients of the backward just made
Update ==
    /\ status = "built" /\ ret.op = "backward" /\ updates < MaxUpdates
    /\ \E lr \in {1000} :
         self' = Dense_updated(self, lr, Dense_get_parameters(self), ret.grads)
    /\ ret' = [op |-> "update", grads |-> ret.grads, before |-> self]
    /\ calls' = <<>> /\ fresh' = NoForward
    /\ first' = [x \in Inputs |-> NoForward]
    /\ updates' = updates + 1
    /\ UNCHANGED <<status, error, nextId, initial, trainvars>>

Next == Construct \/ Forward \/ Backward \/ GetParameters \/ Update

Spec == Init /\ [][Next]_vars

(***************************************************************************)
(* Specification SpecTrain: test_model builds a model and an optimizer,    *)
(* and the optimizer runs its mini-batch steps.                            *)
(***************************************************************************)
DatasetSizes == (0..MaxN) \cup {16, 17, 2047, 2048, 2080}
EpochArgs == (0 - 1)..MaxEpochs
BatchArgs == (0 - 1)..MaxBatch
LearningRates == {0 - 1, 0, 1, 1000}

DenseIdle ==
    /\ status = "start" /\ self = NoObject /\ error = NoError
    /\ ret = [op |-> "none"] /\ calls = <<>> /\ fresh = NoForward
    /\ nextId = 1 /\ first = [x \in Inputs |-> NoForward]
    /\ initial = EmptyDict /\ updates = 0

InitTrain == DenseIdle /\ TrainIdle

\* test_model(dataset_name, model_generator, epochs, lr), up to the optimizer
TestModel ==
    /\ pc = "idle"
    /\ \E model_generator \in Generators, samples \in DatasetSizes,
          epochs \in EpochArgs, lr \in LearningRates :
         /\ model' = Generate(model_generator)
         /\ n' = samples
         /\ cfg' = [batch_size |-> TestBatchSize(samples), epochs |-> epochs, lr |-> lr,
                    model_generator |-> model_generator, by |-> "test_model"]
    /\ pc' = "ready"
    /\ UNCHANGED <<epoch, batch, steps, prev, count, owng, densevars>>

\* a model and StochasticGradientDescent(batch_size, epochs, lr) set up directly
Setup ==
    /\ pc = "idle"
    /\ \E model_generator \in Generators, samples \in DatasetSizes,
          batch_size \in BatchArgs, epochs \in EpochArgs, lr \in LearningRates :
         /\ model' = Generate(model_generator)
         /\ n' = samples
         /\ cfg' = [batch_size |-> batch_size, epochs |-> epochs, lr |-> lr,
                    model_generator |-> model_generator, by |-> "caller"]
    /\ pc' = "ready"
    /\ UNCHANGED <<epoch, batch, steps, prev, count, owng, densevars>>

\* optimizer.optimize(model, x, y, error): the configuration check
Optimize ==
    /\ pc = "ready"
    /\ IF ~SGD_valid(cfg, n)
       THEN pc' = "ConfigurationError" /\ UNCHANGED <<epoch, batch>>
       ELSE IF cfg.epochs < 1
       THEN pc' = "done" /\ UNCHANGED <<epoch, batch>>
       ELSE pc' = "running" /\ epoch' = 1 /\ batch' = 1
    /\ UNCHANGED <<model, cfg, n, steps, prev, count, owng, densevars>>

\* one mini-batch step of the run
Step ==
    /\ pc = "running" /\ steps < MaxSteps
    /\ LET r == SGD_step(cfg, model, epoch, batch)
       IN  /\ model' = r.model
           /\ prev' = model
           /\ owng' = r.own
           /\ count' = r.writes
    /\ steps' = steps + 1
    /\ IF batch < SGD_batches(cfg, n)
       THEN batch' = batch + 1 /\ UNCHANGED <<epoch, pc>>
       ELSE IF epoch < cfg.epochs
       THEN epoch' = epoch + 1 /\ batch' = 1 /\ UNCHANGED pc
       ELSE pc' = "done" /\ UNCHANGED <<epoch, batch>>
    /\ UNCHANGED <<cfg, n, densevars>>

\* test_model after the optimizer: y_pred = model.forward(x) and the metrics
Evaluate ==
    /\ pc = "done"
    /\ pc' = "evaluated"
    /\ UNCHANGED <<model, cfg, n, epoch, batch, steps, prev, count, owng, densevars>>

NextTrain == TestModel \/ Setup \/ Optimize \/ Step \/ Evaluate

SpecTrain == InitTrain /\ [][NextTrain]_vars

(***************************************************************************)
(* Properties of Dense, checked under Spec.                                *)
(***************************************************************************)
Children == {"linear", "bias", "activation"}
FiveNames == {"id", "relu", "tanh", "sigmoid", "softmax"}

\* C1: forward_with_cache(x) returns activation(bias(linear(x))), each child
\* applied once in the order linear, bias, activation on the previous child's
\* output, and the cache (cache_linear, cache_bias, cache_activation).
C1_ForwardComposition ==
    ret.op = "forward" =>
        LET l == Linear_forward_with_cache(self.linear, ret.x)
            b == Bias_forward_with_cache(self.bias, l.y)
            a == Activation_forward_with_cache(self.activation, b.y)
        IN  /\ ret.y = a.y
            /\ ret.cache = <<l.cache, b.cache, a.cache>>
            /\ Len(calls) = 3
            /\ <<calls[1].layer, calls[2].layer, calls[3].layer>>
                 = <<"linear", "bias", "activation">>
            /\ <<calls[1].arg, calls[2].arg, calls[3].arg>> = <<ret.x, l.y, b.y>>
C1_Witness ==
    /\ ret.op = "forward" /\ self.activation.kind = "ReLU"
    /\ ret.y = <<"relu", <<"add", <<"matmul", ret.x, self.linear.w>>, self.bias.b>>>>

\* C2: backward calls activation.backward(upstream, cache[3]), then
\* bias.backward(activation's downstream, cache[2]), then
\* linear.backward(bias's downstream, cache[1]), each once and with the cache
\* the same child produced in the matching forward, and returns linear's
\* downstream gradient.
C2_BackwardOrder ==
    ret.op = "backward" =>
        LET fl == Linear_forward_with_cache(self.linear, fresh.x)
            fb == Bias_forward_with_cache(self.bias, fl.y)
            fa == Activation_forward_with_cache(self.activation, fb.y)
            a == Activation_backward(self.activation, ret.g, fa.cache)
            b == Bias_backward(self.bias, a.dx, fb.cache)
            l == Linear_backward(self.linear, b.dx, fl.cache)
        IN  /\ ret.cache = fresh.cache
            /\ calls = <<Call("activation", "backward", ret.g, fa.cache),
                         Call("bias", "backward", a.dx, fb.cache),
                         Call("linear", "backward", b.dx, fl.cache)>>
            /\ ret.dx = l.dx
C2_Witness ==
    /\ ret.op = "backward" /\ self.activation.kind = "TanH"
    /\ ret.dx = <<"matmul", <<"mul", ret.g, <<"one_minus_sq", fresh.y>>>>,
                             <<"T", self.linear.w>>>>

\* C3: an activation name outside the five (and not omitted) always raises
\* ValueError, whose message names the value and lists exactly the five valid
\* names, and no Dense results; the five names and None never raise.
C3_UnknownActivation ==
    ret.op = "init" =>
        LET arg == ret.activation_name
            valid == arg = None \/ arg[2] \in FiveNames
            listed == SubSeq(error.message, 4, Len(error.message))
        IN  /\ valid => status = "built" /\ error = NoError /\ self # NoObject
            /\ ~valid =>
                 /\ status = "raised" /\ self = NoObject
                 /\ error.type = "ValueError"
                 /\ error.message[2] = arg[2]
                 /\ {listed[i] : i \in {j \in 1..Len(listed) : j % 2 = 1}} = FiveNames
                 /\ \A i \in 1..Len(listed) : i % 2 = 0 => listed[i] = ","
                 /\ Len(listed) = 9
C3_Witness == status = "raised" /\ ret.activation_name = Str("foo")

\* The gradients child c returned in the backward whose calls are logged
ChildGrads(c) ==
    IF c = "activation"
    THEN Activation_backward(self.activation, calls[1].arg, calls[1].cache).grads
    ELSE IF c = "bias"
    THEN Bias_backward(self.bias, calls[2].arg, calls[2].cache).grads
    ELSE Linear_backward(self.linear, calls[3].arg, calls[3].cache).grads
ChildParams(c) ==
    IF c = "activation" THEN Activation_get_parameters(self.activation)
    ELSE IF c = "bias" THEN Bias_get_parameters(self.bias)
    ELSE Linear_get_parameters(self.linear)
\* the children whose value / gradient stands under name k in the merged maps
ValueFrom(k) ==
    {c \in Children : k \in DOMAIN ChildParams(c)
                      /\ Dense_get_parameters(self)[k] = ChildParams(c)[k]}
GradFrom(k) ==
    {c \in Children : k \in DOMAIN ChildGrads(c) /\ ret.grads[k] = ChildGrads(c)[k]}

C5_GradientKeys ==
    ret.op = "backward" =>
        /\ DOMAIN ret.grads = DOMAIN Dense_get_parameters(self)
        /\ DOMAIN ret.grads = UNION {DOMAIN ChildParams(c) : c \in Children}
        /\ \A c \in Children : DOMAIN ChildGrads(c) = DOMAIN ChildParams(c)
C5_Witness ==
    /\ ret.op = "backward"
    /\ self.linear.name = "w" /\ self.bias.name = "b"
    /\ DOMAIN self.activation.p = {"w", "b"}
    /\ DOMAIN ret.grads = {"w", "b"}

\* C9: forward_with_cache, backward and get_parameters leave every child and
\* every parameter value as it was, so that get_parameters returns what it
\* returned right after construction until an optimizer update; only the
\* update step changes a parameter value.
C9_ParametersReadOnly ==
    /\ [](status = "built" /\ updates = 0 => Dense_get_parameters(self) = initial)
    /\ [][status = "built" =>
            /\ ret'.op \in {"forward", "backward", "get_parameters"} => self' = self
            /\ self' # self => ret'.op = "update"]_vars
C9_Witness ==
    /\ status = "built" /\ ret.op = "backward" /\ updates = 0 /\ nextId > 2
    /\ Dense_get_parameters(self) = initial /\ DOMAIN initial = {"w", "b"}

Returned == pc \in {"ConfigurationError", "running", "done", "evaluated"}
\* every parameter array of every layer of m holds what it held in m0
SameParameters(m, m0) ==
    \A i \in 1..Len(m0.layers) :
        Layer_get_parameters(m.layers[i]) = Layer_get_parameters(m0.layers[i])

\* C6: in one mini-batch step on a Sequential with Dense blocks (network2),
\* every parameter array of every child layer is written exactly once, with
\* value - learning_rate * (its own gradient).
C6_EveryParameterUpdatedOnce ==
    (steps > 0 /\ cfg.model_generator = "network2") =>
        \A i \in 1..Len(model.layers) :
            \A k \in DOMAIN Layer_get_parameters(model.layers[i]) :
                LET now == Layer_get_parameters(model.layers[i])[k]
                    before == Layer_get_parameters(prev.layers[i])[k]
                IN  /\ now.val = SGD_value(cfg.lr, before.val, owng[i][k])
                    /\ Cardinality({j \in DOMAIN count : count[j] = now.ref}) = 1

====
